---- MODULE Spec2Model ----
(***************************************************************************)
(* HidCerberus GuardedDevice: the per-device guard loop that polls the     *)
(* HidGuardian driver for pending create requests, asks the CLR host       *)
(* (processVigil) for an allow/sticky decision and submits it back.        *)
(*                                                                         *)
(* Every variable is a function of the GuardedDevice instance.  The thread *)
(* running runTask, the driver completing overlapped control operations,   *)
(* the CLR host returning from processVigil and the owner calling cancel   *)
(* are separate parties; each of their steps is one action.                *)
(***************************************************************************)
EXTENDS Naturals, Sequences, FiniteSets

(* ----------------------------- bounds ---------------------------------- *)
NumDevices == 2     \* GuardedDevice instances that exist
MaxPolls   == 3     \* polls one instance may issue
MaxToken   == 2     \* correlation tokens are 0..MaxToken
MaxPid     == 1     \* process ids the driver reports are 1..MaxPid
MaxCapacity == 2    \* configured hardware-id capacities are 1..MaxCapacity

(* ------------------------ program constants ---------------------------- *)
HeaderSize == 4     \* sizeof(HIDGUARDIAN_GET_CREATE_REQUEST), abstract units
SetSize    == 3     \* sizeof(HIDGUARDIAN_SET_CREATE_REQUEST), abstract units

Devices    == 1..NumDevices
Guarded    == {d \in Devices : d = 1}   \* the instances the owner starts
Tokens     == 0..MaxToken
Pids       == 1..MaxPid
Capacities == 1..MaxCapacity

\* Outcomes of CreateFileA
OpenResults == {"OK", "ERROR_FILE_NOT_FOUND", "ERROR_ACCESS_DENIED", "ERROR_GEN_FAILURE"}
\* Completion statuses of an overlapped control operation
Statuses == {"SUCCESS", "ERROR_NO_MORE_ITEMS", "ERROR_DEV_NOT_EXIST", "ERROR_GEN_FAILURE"}
\* What processVigil stores through an out-pointer: nothing, FALSE or TRUE
VigilWrites == {{}, {0}, {1}}

VARIABLES
    pc,             \* position of the instance / of its runTask thread
    cancelled,      \* Task::isCancelled()
    thrown,         \* exception that left the constructor
    lastError,      \* GetLastError() after CreateFileA
    nOpens,         \* CreateFileA calls
    _deviceHandle,  \* member _deviceHandle
    _bufferSize,    \* member _bufferSize (configured capacity)
    openHandles,    \* OS device handles the instance currently holds open
    hEvent,         \* lOverlapped.hEvent
    ovStatus,       \* completion status kept in lOverlapped
    pHgGetMem,      \* allocation state of the block pHgGet points to
    allocSize,      \* size the block was allocated with
    pHgGet,         \* contents of *pHgGet
    hgSet,          \* hgSet
    reqId,          \* local reqId
    inflight,       \* control operations issued on the handle, not yet completed
    vigilOut,       \* what the last processVigil call stored
    lastOp,         \* last operation the loop performed
    nPolls,         \* get-create-request operations issued
    nRequests,      \* polls the driver completed successfully
    nDecides,       \* processVigil invocations
    nSubmits,       \* set-create-request operations issued
    nSleeps,        \* sleep(200) calls
    nErrorLog,      \* logger.error entries
    nFree,          \* free(pHgGet) calls
    nCloseEvent,    \* CloseHandle(lOverlapped.hEvent) calls
    nCloseHandle,   \* CloseHandle(_deviceHandle) calls
    exitReason      \* why the while loop was left

resVars  == <<openHandles, hEvent, pHgGetMem, allocSize, nFree, nCloseEvent, nCloseHandle,
              _deviceHandle>>
openVars == <<lastError, nOpens>>
bufVars  == <<pHgGet, hgSet, reqId, vigilOut>>
ioVars   == <<inflight, ovStatus>>
cntVars  == <<nPolls, nRequests, nDecides, nSubmits, nSleeps, lastOp>>
vars == <<pc, cancelled, thrown, openVars, _bufferSize, resVars, bufVars, ioVars, cntVars,
          nErrorLog, exitReason>>

Upd(f, d, v) == [f EXCEPT ![d] = v]
Inc(f, d)    == [f EXCEPT ![d] = @ + 1]

\* const ULONG pHgGetSize = sizeof(HIDGUARDIAN_GET_CREATE_REQUEST) + _bufferSize
pHgGetSize(d) == HeaderSize + _bufferSize[d]

\* ZeroMemory(&hgSet, ...)
ZeroSet == [RequestId |-> 0, IsAllowed |-> 0, IsSticky |-> 0]
\* ZeroMemory(pHgGet, pHgGetSize)
ZeroGet == [Size |-> 0, RequestId |-> 0, ProcessId |-> 0]

\* One control operation handed to DeviceIoControl
Ioctl(code, inLen, outLen, size, tok, allowed, sticky) ==
    [code |-> code, inLen |-> inLen, outLen |-> outLen, Size |-> size,
     RequestId |-> tok, IsAllowed |-> allowed, IsSticky |-> sticky]

Init ==
    /\ pc = [d \in Devices |-> "unconstructed"]
    /\ cancelled = [d \in Devices |-> FALSE]
    /\ thrown = [d \in Devices |-> "none"]
    /\ lastError = [d \in Devices |-> "OK"]
    /\ nOpens = [d \in Devices |-> 0]
    /\ _deviceHandle = [d \in Devices |-> "INVALID_HANDLE_VALUE"]
    /\ _bufferSize = [d \in Devices |-> 0]
    /\ openHandles = [d \in Devices |-> 0]
    /\ hEvent = [d \in Devices |-> "none"]
    /\ ovStatus = [d \in Devices |-> "SUCCESS"]
    /\ pHgGetMem = [d \in Devices |-> "none"]
    /\ allocSize = [d \in Devices |-> 0]
    /\ pHgGet = [d \in Devices |-> ZeroGet]
    /\ hgSet = [d \in Devices |-> ZeroSet]
    /\ reqId = [d \in Devices |-> 0]
    /\ inflight = [d \in Devices |-> <<>>]
    /\ vigilOut = [d \in Devices |-> [IsAllowed |-> {}, IsSticky |-> {}]]
    /\ lastOp = [d \in Devices |-> "none"]
    /\ nPolls = [d \in Devices |-> 0]
    /\ nRequests = [d \in Devices |-> 0]
    /\ nDecides = [d \in Devices |-> 0]
    /\ nSubmits = [d \in Devices |-> 0]
    /\ nSleeps = [d \in Devices |-> 0]
    /\ nErrorLog = [d \in Devices |-> 0]
    /\ nFree = [d \in Devices |-> 0]
    /\ nCloseEvent = [d \in Devices |-> 0]
    /\ nCloseHandle = [d \in Devices |-> 0]
    /\ exitReason = [d \in Devices |-> "none"]

(* --------------------------- constructor ------------------------------- *)
\* OpenError without the ERROR_ACCESS_DENIED test
OpenError_NoAccessDenied(err) ==
    IF err = "ERROR_FILE_NOT_FOUND" THEN "NotFound"
    ELSE "Unknown"

\* The message class of the runtime_error thrown for a CreateFileA failure
OpenError(err) ==
    IF err = "ERROR_FILE_NOT_FOUND" THEN "NotFound"
    ELSE IF err = "ERROR_ACCESS_DENIED" THEN "AccessDenied"
    ELSE "Unknown"

\* GuardedDevice::GuardedDevice: the members are initialised (the capacity
\* as configured), CreateFileA, throw on INVALID_HANDLE_VALUE
Construct(d, err, cap) ==
    /\ pc[d] = "unconstructed"
    /\ _bufferSize' = Upd(_bufferSize, d, cap)
    /\ nOpens' = Inc(nOpens, d)
    /\ lastError' = Upd(lastError, d, err)
    /\ IF err = "OK"
       THEN /\ _deviceHandle' = Upd(_deviceHandle, d, "HANDLE")
            /\ openHandles' = Inc(openHandles, d)
            /\ pc' = Upd(pc, d, "constructed")
            /\ UNCHANGED thrown
       ELSE /\ _deviceHandle' = Upd(_deviceHandle, d, "INVALID_HANDLE_VALUE")
            /\ thrown' = Upd(thrown, d, OpenError(err))
            /\ pc' = Upd(pc, d, "ctor_failed")
            /\ UNCHANGED openHandles
    /\ UNCHANGED <<cancelled, hEvent, pHgGetMem, allocSize, nFree, nCloseEvent,
                   nCloseHandle, bufVars, ioVars, cntVars, nErrorLog, exitReason>>

\* Cancel acting on a flag that all instances share
Cancel_All(d) ==
    /\ pc[d] \notin {"unconstructed", "ctor_failed", "destroyed"}
    /\ ~cancelled[d]
    /\ cancelled' = [e \in Devices |-> TRUE]
    /\ UNCHANGED <<pc, thrown, openVars, _bufferSize, resVars, bufVars, ioVars, cntVars,
                   nErrorLog, exitReason>>

\* Task::cancel(), called by the owner of the task at any time
Cancel(d) ==
    /\ pc[d] \notin {"unconstructed", "ctor_failed", "destroyed"}
    /\ ~cancelled[d]
    /\ cancelled' = Upd(cancelled, d, TRUE)
    /\ UNCHANGED <<pc, thrown, openVars, _bufferSize, resVars, bufVars, ioVars, cntVars,
                   nErrorLog, exitReason>>

(* ----------------------------- runTask --------------------------------- *)
\* Entry of runTask up to the while: CreateEvent, malloc
Start(d) ==
    /\ pc[d] = "constructed"
    /\ hEvent' = Upd(hEvent, d, "open")
    /\ pHgGetMem' = Upd(pHgGetMem, d, "allocated")
    /\ allocSize' = Upd(allocSize, d, pHgGetSize(d))
    /\ ovStatus' = Upd(ovStatus, d, "SUCCESS")
    /\ pc' = Upd(pc, d, "loop")
    /\ UNCHANGED <<cancelled, thrown, openVars, _bufferSize, openHandles, nFree, nCloseEvent,
                   nCloseHandle, _deviceHandle, bufVars, inflight, cntVars,
                   nErrorLog, exitReason>>

\* LoopCancelled of a loop that does not act on the flag
LoopCancelled_Ignored(d) ==
    /\ pc[d] = "loop"
    /\ cancelled[d]
    /\ UNCHANGED vars

\* while (!isCancelled()) found the flag set: leave the loop
LoopCancelled(d) ==
    /\ pc[d] = "loop"
    /\ cancelled[d]
    /\ pc' = Upd(pc, d, "cleanup")
    /\ exitReason' = Upd(exitReason, d, "cancelled")
    /\ UNCHANGED <<cancelled, thrown, openVars, _bufferSize, resVars, bufVars, ioVars, cntVars,
                   nErrorLog>>

\* BeginCycle of a loop that tests the flag only after the body (do-while)
BeginCycle_NoCheck(d, r) ==
    /\ pc[d] = "loop"
    /\ nPolls[d] < MaxPolls
    /\ hgSet' = Upd(hgSet, d, ZeroSet)
    /\ pHgGet' = Upd(pHgGet, d, [ZeroGet EXCEPT !.Size = pHgGetSize(d), !.RequestId = r])
    /\ reqId' = Upd(reqId, d, r)
    /\ inflight' = Upd(inflight, d,
            Append(inflight[d],
                   Ioctl("GET", pHgGetSize(d), pHgGetSize(d), pHgGetSize(d), r, 0, 0)))
    /\ ovStatus' = Upd(ovStatus, d, "PENDING")
    /\ nPolls' = Inc(nPolls, d)
    /\ lastOp' = Upd(lastOp, d, "poll")
    /\ pc' = Upd(pc, d, "poll_wait")
    /\ UNCHANGED <<cancelled, thrown, openVars, _bufferSize, resVars, vigilOut, nRequests,
                   nDecides, nSubmits, nSleeps, nErrorLog, exitReason>>

\* BeginCycle without ZeroMemory(pHgGet, pHgGetSize)
BeginCycle_NoZeroGet(d, r) ==
    /\ pc[d] = "loop"
    /\ ~cancelled[d]
    /\ nPolls[d] < MaxPolls
    /\ hgSet' = Upd(hgSet, d, ZeroSet)
    /\ pHgGet' = Upd(pHgGet, d, [pHgGet[d] EXCEPT !.Size = pHgGetSize(d), !.RequestId = r])
    /\ reqId' = Upd(reqId, d, r)
    /\ inflight' = Upd(inflight, d,
            Append(inflight[d],
                   Ioctl("GET", pHgGetSize(d), pHgGetSize(d), pHgGetSize(d), r, 0, 0)))
    /\ ovStatus' = Upd(ovStatus, d, "PENDING")
    /\ nPolls' = Inc(nPolls, d)
    /\ lastOp' = Upd(lastOp, d, "poll")
    /\ pc' = Upd(pc, d, "poll_wait")
    /\ UNCHANGED <<cancelled, thrown, openVars, _bufferSize, resVars, vigilOut, nRequests,
                   nDecides, nSubmits, nSleeps, nErrorLog, exitReason>>

\* BeginCycle without ZeroMemory(&hgSet, ...)
BeginCycle_NoZeroSet(d, r) ==
    /\ pc[d] = "loop"
    /\ ~cancelled[d]
    /\ nPolls[d] < MaxPolls
    /\ hgSet' = hgSet
    /\ pHgGet' = Upd(pHgGet, d, [ZeroGet EXCEPT !.Size = pHgGetSize(d), !.RequestId = r])
    /\ reqId' = Upd(reqId, d, r)
    /\ inflight' = Upd(inflight, d,
            Append(inflight[d],
                   Ioctl("GET", pHgGetSize(d), pHgGetSize(d), pHgGetSize(d), r, 0, 0)))
    /\ ovStatus' = Upd(ovStatus, d, "PENDING")
    /\ nPolls' = Inc(nPolls, d)
    /\ lastOp' = Upd(lastOp, d, "poll")
    /\ pc' = Upd(pc, d, "poll_wait")
    /\ UNCHANGED <<cancelled, thrown, openVars, _bufferSize, resVars, vigilOut, nRequests,
                   nDecides, nSubmits, nSleeps, nErrorLog, exitReason>>

\* BeginCycle stamping Size before it zeroes the buffer
BeginCycle_SizeBeforeZero(d, r) ==
    /\ pc[d] = "loop"
    /\ ~cancelled[d]
    /\ nPolls[d] < MaxPolls
    /\ hgSet' = Upd(hgSet, d, ZeroSet)
    /\ pHgGet' = Upd(pHgGet, d, [ZeroGet EXCEPT !.RequestId = r])
    /\ reqId' = Upd(reqId, d, r)
    /\ inflight' = Upd(inflight, d,
            Append(inflight[d],
                   Ioctl("GET", pHgGetSize(d), pHgGetSize(d), 0, r, 0, 0)))
    /\ ovStatus' = Upd(ovStatus, d, "PENDING")
    /\ nPolls' = Inc(nPolls, d)
    /\ lastOp' = Upd(lastOp, d, "poll")
    /\ pc' = Upd(pc, d, "poll_wait")
    /\ UNCHANGED <<cancelled, thrown, openVars, _bufferSize, resVars, vigilOut, nRequests,
                   nDecides, nSubmits, nSleeps, nErrorLog, exitReason>>

\* while (!isCancelled()) passed: zero both structures, stamp Size and
\* RequestId, issue IOCTL_HIDGUARDIAN_GET_CREATE_REQUEST
BeginCycle(d, r) ==
    /\ pc[d] = "loop"
    /\ ~cancelled[d]
    /\ nPolls[d] < MaxPolls
    /\ hgSet' = Upd(hgSet, d, ZeroSet)
    /\ pHgGet' = Upd(pHgGet, d, [ZeroGet EXCEPT !.Size = pHgGetSize(d), !.RequestId = r])
    /\ reqId' = Upd(reqId, d, r)
    /\ inflight' = Upd(inflight, d,
            Append(inflight[d],
                   Ioctl("GET", pHgGetSize(d), pHgGetSize(d), pHgGetSize(d), r, 0, 0)))
    /\ ovStatus' = Upd(ovStatus, d, "PENDING")
    /\ nPolls' = Inc(nPolls, d)
    /\ lastOp' = Upd(lastOp, d, "poll")
    /\ pc' = Upd(pc, d, "poll_wait")
    /\ UNCHANGED <<cancelled, thrown, openVars, _bufferSize, resVars, vigilOut, nRequests,
                   nDecides, nSubmits, nSleeps, nErrorLog, exitReason>>

\* The driver completes the oldest outstanding get-create-request
DriverCompleteGet(d, st, tok, pid) ==
    /\ inflight[d] # <<>>
    /\ Head(inflight[d]).code = "GET"
    /\ inflight' = Upd(inflight, d, Tail(inflight[d]))
    /\ ovStatus' = Upd(ovStatus, d, st)
    /\ IF st = "SUCCESS"
       THEN /\ pHgGet' = Upd(pHgGet, d, [pHgGet[d] EXCEPT !.RequestId = tok, !.ProcessId = pid])
            /\ nRequests' = Inc(nRequests, d)
       ELSE UNCHANGED <<pHgGet, nRequests>>
    /\ UNCHANGED <<pc, cancelled, thrown, openVars, _bufferSize, resVars, hgSet, reqId, vigilOut,
                   nPolls, nDecides, nSubmits, nSleeps, lastOp, nErrorLog, exitReason>>

\* GetOverlappedResult called with bWait = FALSE
WaitReturned_NoWait(d) == TRUE

\* GetOverlappedResult(..., bWait = TRUE) returns only once the operation completed
WaitReturned(d) == ovStatus[d] # "PENDING"

\* PollEmpty that continues without sleeping
PollEmpty_NoSleep(d) ==
    /\ pc[d] = "poll_wait"
    /\ WaitReturned(d)
    /\ ovStatus[d] = "ERROR_NO_MORE_ITEMS"
    /\ pc' = Upd(pc, d, "loop")
    /\ UNCHANGED <<cancelled, thrown, openVars, _bufferSize, resVars, bufVars, ioVars, cntVars,
                   nErrorLog, exitReason>>

\* poll failed with ERROR_NO_MORE_ITEMS: sleep(200); continue
PollEmpty(d) ==
    /\ pc[d] = "poll_wait"
    /\ WaitReturned(d)
    /\ ovStatus[d] = "ERROR_NO_MORE_ITEMS"
    /\ nSleeps' = Inc(nSleeps, d)
    /\ lastOp' = Upd(lastOp, d, "sleep")
    /\ pc' = Upd(pc, d, "backoff")
    /\ UNCHANGED <<cancelled, thrown, openVars, _bufferSize, resVars, bufVars, ioVars, nPolls,
                   nRequests, nDecides, nSubmits, nErrorLog, exitReason>>

\* sleep(200) returns
SleepEnd(d) ==
    /\ pc[d] = "backoff"
    /\ pc' = Upd(pc, d, "loop")
    /\ UNCHANGED <<cancelled, thrown, openVars, _bufferSize, resVars, bufVars, ioVars, cntVars,
                   nErrorLog, exitReason>>

\* PollGone that continues instead of breaking
PollGone_Continue(d) ==
    /\ pc[d] = "poll_wait"
    /\ WaitReturned(d)
    /\ ovStatus[d] = "ERROR_DEV_NOT_EXIST"
    /\ pc' = Upd(pc, d, "loop")
    /\ UNCHANGED <<cancelled, thrown, openVars, _bufferSize, resVars, bufVars, ioVars, cntVars,
                   nErrorLog, exitReason>>

\* PollGone that logs the removal with logger.error
PollGone_LogsError(d) ==
    /\ pc[d] = "poll_wait"
    /\ WaitReturned(d)
    /\ ovStatus[d] = "ERROR_DEV_NOT_EXIST"
    /\ nErrorLog' = Inc(nErrorLog, d)
    /\ pc' = Upd(pc, d, "cleanup")
    /\ exitReason' = Upd(exitReason, d, "poll_gone")
    /\ UNCHANGED <<cancelled, thrown, openVars, _bufferSize, resVars, bufVars, ioVars, cntVars>>

\* poll failed with ERROR_DEV_NOT_EXIST: debug log, break
PollGone(d) ==
    /\ pc[d] = "poll_wait"
    /\ WaitReturned(d)
    /\ ovStatus[d] = "ERROR_DEV_NOT_EXIST"
    /\ pc' = Upd(pc, d, "cleanup")
    /\ exitReason' = Upd(exitReason, d, "poll_gone")
    /\ UNCHANGED <<cancelled, thrown, openVars, _bufferSize, resVars, bufVars, ioVars, cntVars,
                   nErrorLog>>

\* PollFatal that logs and polls again
PollFatal_Retry(d) ==
    /\ pc[d] = "poll_wait"
    /\ WaitReturned(d)
    /\ ovStatus[d] \notin {"SUCCESS", "ERROR_NO_MORE_ITEMS", "ERROR_DEV_NOT_EXIST"}
    /\ nErrorLog' = Inc(nErrorLog, d)
    /\ pc' = Upd(pc, d, "loop")
    /\ UNCHANGED <<cancelled, thrown, openVars, _bufferSize, resVars, bufVars, ioVars, cntVars,
                   exitReason>>

\* PollFatal without its break: logs and falls through to processVigil
PollFatal_NoBreak(d) ==
    /\ pc[d] = "poll_wait"
    /\ WaitReturned(d)
    /\ ovStatus[d] \notin {"SUCCESS", "ERROR_NO_MORE_ITEMS", "ERROR_DEV_NOT_EXIST"}
    /\ nErrorLog' = Inc(nErrorLog, d)
    /\ hgSet' = Upd(hgSet, d, [hgSet[d] EXCEPT !.RequestId = pHgGet[d].RequestId])
    /\ nDecides' = Inc(nDecides, d)
    /\ lastOp' = Upd(lastOp, d, "decide")
    /\ pc' = Upd(pc, d, "vigil")
    /\ UNCHANGED <<cancelled, thrown, openVars, _bufferSize, resVars, pHgGet, reqId, vigilOut,
                   ioVars, nPolls, nRequests, nSubmits, nSleeps, exitReason>>

\* poll failed with any other error: logger.error, break
PollFatal(d) ==
    /\ pc[d] = "poll_wait"
    /\ WaitReturned(d)
    /\ ovStatus[d] \notin {"SUCCESS", "ERROR_NO_MORE_ITEMS", "ERROR_DEV_NOT_EXIST"}
    /\ nErrorLog' = Inc(nErrorLog, d)
    /\ pc' = Upd(pc, d, "cleanup")
    /\ exitReason' = Upd(exitReason, d, "poll_fatal")
    /\ UNCHANGED <<cancelled, thrown, openVars, _bufferSize, resVars, bufVars, ioVars, cntVars>>

\* PollSuccess answering with the token the loop stamped instead of the one
\* in the buffer
PollSuccess_StampedToken(d) ==
    /\ pc[d] = "poll_wait"
    /\ WaitReturned(d)
    /\ ovStatus[d] = "SUCCESS"
    /\ hgSet' = Upd(hgSet, d, [hgSet[d] EXCEPT !.RequestId = reqId[d]])
    /\ nDecides' = Inc(nDecides, d)
    /\ lastOp' = Upd(lastOp, d, "decide")
    /\ pc' = Upd(pc, d, "vigil")
    /\ UNCHANGED <<cancelled, thrown, openVars, _bufferSize, resVars, pHgGet, reqId, vigilOut,
                   ioVars, nPolls, nRequests, nSubmits, nSleeps, nErrorLog, exitReason>>

\* PollSuccess that tests the flag again and drops the request when it is set
PollSuccess_AbandonOnCancel(d) ==
    /\ pc[d] = "poll_wait"
    /\ WaitReturned(d)
    /\ ovStatus[d] = "SUCCESS"
    /\ IF cancelled[d]
       THEN /\ pc' = Upd(pc, d, "cleanup")
            /\ exitReason' = Upd(exitReason, d, "cancelled")
            /\ UNCHANGED <<hgSet, nDecides, lastOp>>
       ELSE /\ hgSet' = Upd(hgSet, d, [hgSet[d] EXCEPT !.RequestId = pHgGet[d].RequestId])
            /\ nDecides' = Inc(nDecides, d)
            /\ lastOp' = Upd(lastOp, d, "decide")
            /\ pc' = Upd(pc, d, "vigil")
            /\ UNCHANGED exitReason
    /\ UNCHANGED <<cancelled, thrown, openVars, _bufferSize, resVars, pHgGet, reqId, vigilOut,
                   ioVars, nPolls, nRequests, nSubmits, nSleeps, nErrorLog>>

\* poll succeeded: hgSet.RequestId = pHgGet->RequestId, call processVigil
PollSuccess(d) ==
    /\ pc[d] = "poll_wait"
    /\ WaitReturned(d)
    /\ ovStatus[d] = "SUCCESS"
    /\ hgSet' = Upd(hgSet, d, [hgSet[d] EXCEPT !.RequestId = pHgGet[d].RequestId])
    /\ nDecides' = Inc(nDecides, d)
    /\ lastOp' = Upd(lastOp, d, "decide")
    /\ pc' = Upd(pc, d, "vigil")
    /\ UNCHANGED <<cancelled, thrown, openVars, _bufferSize, resVars, pHgGet, reqId, vigilOut,
                   ioVars, nPolls, nRequests, nSubmits, nSleeps, nErrorLog, exitReason>>

\* A flag of hgSet after processVigil stored w through its out-pointer
Stored(old, w) == IF w = {} THEN old ELSE CHOOSE v \in w : TRUE

\* processVigil returns having stored a and s; issue
\* IOCTL_HIDGUARDIAN_SET_CREATE_REQUEST with &hgSet
VigilReturn(d, a, s) ==
    /\ pc[d] = "vigil"
    /\ vigilOut' = Upd(vigilOut, d, [IsAllowed |-> a, IsSticky |-> s])
    /\ hgSet' = Upd(hgSet, d, [hgSet[d] EXCEPT !.IsAllowed = Stored(@, a),
                                               !.IsSticky = Stored(@, s)])
    /\ inflight' = Upd(inflight, d,
            Append(inflight[d],
                   Ioctl("SET", SetSize, 0, 0, hgSet'[d].RequestId,
                         hgSet'[d].IsAllowed, hgSet'[d].IsSticky)))
    /\ ovStatus' = Upd(ovStatus, d, "PENDING")
    /\ nSubmits' = Inc(nSubmits, d)
    /\ lastOp' = Upd(lastOp, d, "submit")
    /\ pc' = Upd(pc, d, "submit_wait")
    /\ UNCHANGED <<cancelled, thrown, openVars, _bufferSize, resVars, pHgGet, reqId, nPolls,
                   nRequests, nDecides, nSleeps, nErrorLog, exitReason>>

\* The driver completes the oldest outstanding set-create-request
DriverCompleteSet(d, st) ==
    /\ inflight[d] # <<>>
    /\ Head(inflight[d]).code = "SET"
    /\ inflight' = Upd(inflight, d, Tail(inflight[d]))
    /\ ovStatus' = Upd(ovStatus, d, st)
    /\ UNCHANGED <<pc, cancelled, thrown, openVars, _bufferSize, resVars, bufVars, cntVars,
                   nErrorLog, exitReason>>

\* SubmitOk that sleeps before the next iteration
SubmitOk_ThenSleep(d) ==
    /\ pc[d] = "submit_wait"
    /\ WaitReturned(d)
    /\ ovStatus[d] = "SUCCESS"
    /\ nSleeps' = Inc(nSleeps, d)
    /\ lastOp' = Upd(lastOp, d, "sleep")
    /\ pc' = Upd(pc, d, "backoff")
    /\ UNCHANGED <<cancelled, thrown, openVars, _bufferSize, resVars, bufVars, ioVars, nPolls,
                   nRequests, nDecides, nSubmits, nErrorLog, exitReason>>

\* submit succeeded: next iteration
SubmitOk(d) ==
    /\ pc[d] = "submit_wait"
    /\ WaitReturned(d)
    /\ ovStatus[d] = "SUCCESS"
    /\ pc' = Upd(pc, d, "loop")
    /\ UNCHANGED <<cancelled, thrown, openVars, _bufferSize, resVars, bufVars, ioVars, cntVars,
                   nErrorLog, exitReason>>

\* submit failed with ERROR_DEV_NOT_EXIST: debug log, break
SubmitGone(d) ==
    /\ pc[d] = "submit_wait"
    /\ WaitReturned(d)
    /\ ovStatus[d] = "ERROR_DEV_NOT_EXIST"
    /\ pc' = Upd(pc, d, "cleanup")
    /\ exitReason' = Upd(exitReason, d, "submit_gone")
    /\ UNCHANGED <<cancelled, thrown, openVars, _bufferSize, resVars, bufVars, ioVars, cntVars,
                   nErrorLog>>

\* submit failed with any other error: logger.error, break
SubmitFatal(d) ==
    /\ pc[d] = "submit_wait"
    /\ WaitReturned(d)
    /\ ovStatus[d] \notin {"SUCCESS", "ERROR_DEV_NOT_EXIST"}
    /\ nErrorLog' = Inc(nErrorLog, d)
    /\ pc' = Upd(pc, d, "cleanup")
    /\ exitReason' = Upd(exitReason, d, "submit_fatal")
    /\ UNCHANGED <<cancelled, thrown, openVars, _bufferSize, resVars, bufVars, ioVars, cntVars>>

\* Cleanup that leaks the event
Cleanup_LeakEvent(d) ==
    /\ pc[d] = "cleanup"
    /\ pHgGetMem' = Upd(pHgGetMem, d, "freed")
    /\ nFree' = Inc(nFree, d)
    /\ pc' = Upd(pc, d, "finished")
    /\ UNCHANGED <<cancelled, thrown, openVars, _bufferSize, openHandles, allocSize, nCloseHandle, hEvent,
                   nCloseEvent, _deviceHandle, bufVars, ioVars, cntVars, nErrorLog,
                   exitReason>>

\* Cleanup placed inside the loop body: releases and iterates again
Cleanup_InsideLoop(d) ==
    /\ pc[d] = "cleanup"
    /\ pHgGetMem' = Upd(pHgGetMem, d, "freed")
    /\ nFree' = Inc(nFree, d)
    /\ hEvent' = Upd(hEvent, d, "closed")
    /\ nCloseEvent' = Inc(nCloseEvent, d)
    /\ pc' = Upd(pc, d, "loop")
    /\ UNCHANGED <<cancelled, thrown, openVars, _bufferSize, openHandles, allocSize, nCloseHandle,
                   _deviceHandle, bufVars, ioVars, cntVars, nErrorLog, exitReason>>

\* After the loop: free(pHgGet), CloseHandle(lOverlapped.hEvent), return
Cleanup(d) ==
    /\ pc[d] = "cleanup"
    /\ pHgGetMem' = Upd(pHgGetMem, d, "freed")
    /\ nFree' = Inc(nFree, d)
    /\ hEvent' = Upd(hEvent, d, "closed")
    /\ nCloseEvent' = Inc(nCloseEvent, d)
    /\ pc' = Upd(pc, d, "finished")
    /\ UNCHANGED <<cancelled, thrown, openVars, _bufferSize, openHandles, allocSize, nCloseHandle,
                   _deviceHandle, bufVars, ioVars, cntVars, nErrorLog, exitReason>>

(* ---------------------------- destructor ------------------------------- *)
\* Destroy that leaves the handle open
Destroy_NoClose(d) ==
    /\ pc[d] \in {"constructed", "finished"}
    /\ pc' = Upd(pc, d, "destroyed")
    /\ UNCHANGED <<cancelled, thrown, openVars, _bufferSize, resVars, bufVars, ioVars,
                   cntVars, nErrorLog, exitReason>>

\* GuardedDevice::~GuardedDevice: CloseHandle unless the handle is invalid.
\* The task is destroyed before it ever ran or after runTask returned.
Destroy(d) ==
    /\ pc[d] \in {"constructed", "finished"}
    /\ IF _deviceHandle[d] # "INVALID_HANDLE_VALUE"
       THEN /\ nCloseHandle' = Inc(nCloseHandle, d)
            /\ openHandles' = Upd(openHandles, d, openHandles[d] - 1)
       ELSE UNCHANGED <<nCloseHandle, openHandles>>
    /\ pc' = Upd(pc, d, "destroyed")
    /\ UNCHANGED <<cancelled, thrown, openVars, _bufferSize, hEvent, pHgGetMem, allocSize, nFree,
                   nCloseEvent, _deviceHandle, bufVars, ioVars, cntVars, nErrorLog,
                   exitReason>>

(* ------------------------- specifications ------------------------------ *)
\* The steps of the thread that runs runTask for d
ThreadStep(d) ==
    \/ Start(d)
    \/ LoopCancelled(d)
    \/ \E r \in Tokens : BeginCycle(d, r)
    \/ PollEmpty(d)
    \/ PollGone(d)
    \/ PollFatal(d)
    \/ PollSuccess(d)
    \/ SubmitOk(d)
    \/ SubmitGone(d)
    \/ SubmitFatal(d)
    \/ Cleanup(d)

\* The driver completing an outstanding control operation of d
DriverStep(d) ==
    \/ \E st \in Statuses, tok \in Tokens, pid \in Pids : DriverCompleteGet(d, st, tok, pid)
    \/ \E st \in Statuses : DriverCompleteSet(d, st)

\* processVigil returning to the loop of d
BridgeStep(d) == \E a \in VigilWrites, s \in VigilWrites : VigilReturn(d, a, s)

\* What the owner of the task does with d
OwnerStep(d) ==
    \/ \E err \in OpenResults, cap \in Capacities : Construct(d, err, cap)
    \/ Cancel(d)
    \/ Destroy(d)

Step(d) ==
    \/ ThreadStep(d)
    \/ DriverStep(d)
    \/ BridgeStep(d)
    \/ SleepEnd(d)
    \/ OwnerStep(d)

\* One guarded device
Next == \E d \in Guarded : Step(d)

Spec == Init /\ [][Next]_vars

\* The same with the scheduling the liveness assumption grants: the thread
\* runs, outstanding control operations complete, processVigil returns and
\* sleep ends
Fairness ==
    \A d \in Guarded :
        /\ WF_vars(ThreadStep(d))
        /\ WF_vars(DriverStep(d))
        /\ WF_vars(BridgeStep(d))
        /\ WF_vars(SleepEnd(d))

SpecLive == Spec /\ Fairness

\* Two instances guarded at the same time, their threads, drivers and owners
\* interleaving freely.  Each loop is followed through its first poll cycle,
\* with the smallest capacity, tokens and process id.
Both == {d \in Devices : d <= 2}

Narrow(d) ==
    /\ nPolls[d] <= 1
    /\ reqId[d] <= 1
    /\ pHgGet[d].RequestId <= 1
    /\ pHgGet[d].ProcessId <= 1
    /\ _bufferSize[d] <= 1

NextMulti == \E d \in Both : Step(d) /\ Narrow(d)'

SpecMulti == Init /\ [][NextMulti]_vars

(* ------------------------------ claims --------------------------------- *)
\* The set-create-request operations that are outstanding on d
Submits(d) == {i \in 1..Len(inflight[d]) : inflight[d][i].code = "SET"}

\* C1: every submit carries the correlation token that is in the request
\* buffer after the poll completed, and for each flag the value processVigil
\* stored for this request; nothing else is ever submitted.
C1_SubmitCarriesTokenAndDecision ==
    \A d \in Devices : \A i \in Submits(d) :
        /\ inflight[d][i].RequestId = pHgGet[d].RequestId
        /\ vigilOut[d].IsAllowed # {} => inflight[d][i].IsAllowed \in vigilOut[d].IsAllowed
        /\ vigilOut[d].IsSticky # {} => inflight[d][i].IsSticky \in vigilOut[d].IsSticky
        /\ inflight[d][i].IsAllowed \in {0, 1}
        /\ inflight[d][i].IsSticky \in {0, 1}

\* A submit is outstanding that answers a driver-assigned token (not the one
\* the loop stamped) with allowed = false, sticky = true
C1_Witness ==
    \E d \in Devices :
        /\ pc[d] = "submit_wait"
        /\ Submits(d) # {}
        /\ inflight[d][1].RequestId # reqId[d]
        /\ vigilOut[d] = [IsAllowed |-> {0}, IsSticky |-> {1}]
        /\ inflight[d][1].IsAllowed = 0
        /\ inflight[d][1].IsSticky = 1

\* C2: while polls are answered "queue empty", processVigil is not called and
\* nothing is submitted; a sleep happens only right after a poll, and the
\* poll after an empty one is issued only right after that sleep - exactly one
\* idle wait between two consecutive polls of the run.
C2_EmptyRunSleepsOncePerPoll ==
    [][\A d \in Devices :
        /\ (pc[d] = "poll_wait" /\ ovStatus[d] = "ERROR_NO_MORE_ITEMS")
              => /\ nDecides'[d] = nDecides[d]
                 /\ nSubmits'[d] = nSubmits[d]
                 /\ nPolls'[d] = nPolls[d]
                 /\ pc'[d] \in {"poll_wait", "backoff"}
        /\ nSleeps'[d] # nSleeps[d]
              => /\ nSleeps'[d] = nSleeps[d] + 1
                 /\ lastOp[d] = "poll"
                 /\ ovStatus[d] = "ERROR_NO_MORE_ITEMS"
        /\ (nPolls'[d] # nPolls[d] /\ ovStatus[d] = "ERROR_NO_MORE_ITEMS")
              => lastOp[d] = "sleep"
        /\ pc[d] = "backoff"
              => /\ nDecides'[d] = nDecides[d]
                 /\ nSubmits'[d] = nSubmits[d]
                 /\ nPolls'[d] = nPolls[d]
                 /\ nSleeps'[d] = nSleeps[d]
    ]_vars

\* The third poll is outstanding after two polls that were both answered
\* "queue empty": two sleeps, no processVigil call, no submit
C2_Witness ==
    \E d \in Devices :
        /\ pc[d] = "poll_wait"
        /\ nPolls[d] = 3
        /\ nSleeps[d] = 2
        /\ nRequests[d] = 0
        /\ nDecides[d] = 0
        /\ nSubmits[d] = 0

\* Positions at which runTask is between its first and its last statement
InLoop == {"loop", "poll_wait", "backoff", "vigil", "submit_wait"}
\* Positions after the while loop was left
Exited == {"cleanup", "finished", "destroyed"}

\* The loop performs no poll, processVigil call, submit or sleep in this step
NoOperation(d) ==
    /\ nPolls'[d] = nPolls[d]
    /\ nDecides'[d] = nDecides[d]
    /\ nSubmits'[d] = nSubmits[d]
    /\ nSleeps'[d] = nSleeps[d]
    /\ Len(inflight'[d]) <= Len(inflight[d])

\* C3: once a poll or a submit completed with "device gone", the loop issues
\* no further poll, processVigil call or submit, it only moves on to its exit,
\* which it reaches, and no exception leaves it.
C3_DeviceGoneEndsLoop ==
    /\ \A d \in Guarded :
          (ovStatus[d] = "ERROR_DEV_NOT_EXIST") ~> (pc[d] \in {"finished", "destroyed"})
    /\ [][\A d \in Devices :
           ovStatus[d] = "ERROR_DEV_NOT_EXIST"
             => /\ NoOperation(d)
                /\ pc[d] \in {"poll_wait", "submit_wait"} \cup Exited
                /\ pc'[d] = pc[d] \/ pc'[d] \in Exited
                /\ thrown[d] = "none" /\ thrown'[d] = "none"
                /\ ovStatus'[d] = "ERROR_DEV_NOT_EXIST"
       ]_vars

\* runTask returned after a submit was answered "device gone"
C3_Witness ==
    \E d \in Devices :
        /\ pc[d] = "finished"
        /\ exitReason[d] = "submit_gone"
        /\ ovStatus[d] = "ERROR_DEV_NOT_EXIST"
        /\ thrown[d] = "none"

\* C4: the request buffer and the event are released exactly once by the
\* time runTask has returned, on every exit path, and the device handle exactly
\* once by the time the instance is destroyed; nothing is released twice, and
\* nothing is released while the loop still runs.
C4_ResourcesReleasedOnce ==
    \A d \in Devices :
        /\ nFree[d] <= 1 /\ nCloseEvent[d] <= 1 /\ nCloseHandle[d] <= 1
        /\ pc[d] \in InLoop \cup {"cleanup"}
              => /\ nFree[d] = 0 /\ pHgGetMem[d] = "allocated"
                 /\ nCloseEvent[d] = 0 /\ hEvent[d] = "open"
                 /\ nCloseHandle[d] = 0 /\ openHandles[d] = 1
        /\ exitReason[d] # "none" /\ pc[d] \in {"finished", "destroyed"}
              => /\ nFree[d] = 1 /\ pHgGetMem[d] = "freed"
                 /\ nCloseEvent[d] = 1 /\ hEvent[d] = "closed"
        /\ pc[d] = "finished" => nCloseHandle[d] = 0 /\ openHandles[d] = 1
        /\ pc[d] = "destroyed" => nCloseHandle[d] = 1 /\ openHandles[d] = 0

\* The instance was destroyed after its loop ended on a fatal submit failure
C4_Witness ==
    \E d \in Devices :
        /\ pc[d] = "destroyed"
        /\ exitReason[d] = "submit_fatal"
        /\ nFree[d] = 1 /\ nCloseEvent[d] = 1 /\ nCloseHandle[d] = 1

\* The last poll or submit completed with a failure that is neither "queue
\* empty" (poll only) nor "device gone"
Fatal(d) ==
    \/ lastOp[d] = "poll" /\ ovStatus[d] \notin {"PENDING", "SUCCESS", "ERROR_NO_MORE_ITEMS",
                                                  "ERROR_DEV_NOT_EXIST"}
    \/ lastOp[d] = "submit" /\ ovStatus[d] \notin {"PENDING", "SUCCESS", "ERROR_DEV_NOT_EXIST"}

\* C5: after such a failure the failed operation is not retried, no further
\* poll, processVigil call or submit is issued, the loop only moves on to its
\* exit, which it reaches, and no exception leaves it.
C5_FatalEndsLoop ==
    /\ \A d \in Guarded : Fatal(d) ~> (pc[d] \in {"finished", "destroyed"})
    /\ [][\A d \in Devices :
           Fatal(d)
             => /\ NoOperation(d)
                /\ pc[d] \in {"poll_wait", "submit_wait"} \cup Exited
                /\ pc'[d] = pc[d] \/ pc'[d] \in Exited
                /\ thrown[d] = "none" /\ thrown'[d] = "none"
                /\ Fatal(d)'
       ]_vars

\* runTask returned after a submit failed with "queue empty", which is a
\* failure like any other for a submit; one submit was issued
C5_Witness ==
    \E d \in Devices :
        /\ pc[d] = "finished"
        /\ exitReason[d] = "submit_fatal"
        /\ ovStatus[d] = "ERROR_NO_MORE_ITEMS"
        /\ nSubmits[d] = 1
        /\ thrown[d] = "none"

\* C6: a poll is issued only by a step that found the cancellation flag
\* unset; at a cycle boundary with the flag set the loop can only leave for
\* its exit.
C6_CancelCheckedBeforePoll ==
    [][\A d \in Devices :
        /\ nPolls'[d] # nPolls[d] => pc[d] = "loop" /\ ~cancelled[d]
        /\ (pc[d] = "loop" /\ cancelled[d])
              => /\ pc'[d] \in {"loop", "cleanup"}
                 /\ NoOperation(d)
    ]_vars

\* The flag was set during an idle wait and the loop left at the next
\* cycle boundary
C6_Witness ==
    \E d \in Devices :
        /\ pc[d] = "finished"
        /\ exitReason[d] = "cancelled"
        /\ lastOp[d] = "sleep"
        /\ nPolls[d] = 1

\* C7: with outstanding control operations completing, processVigil
\* returning and sleeps ending, a loop whose cancellation flag is set
\* eventually returns; and while a control operation is outstanding no step,
\* cancellation included, moves the thread.
C7_CancelEventuallyTerminates ==
    /\ \A d \in Guarded :
          (cancelled[d] /\ pc[d] \in InLoop) ~> (pc[d] \in {"finished", "destroyed"})
    /\ [][\A d \in Devices :
            ovStatus[d] = "PENDING" => pc'[d] = pc[d] /\ pc[d] \in {"poll_wait", "submit_wait"}
       ]_vars

\* The flag is set while a poll is outstanding
C7_Witness ==
    \E d \in Devices :
        /\ cancelled[d]
        /\ pc[d] = "poll_wait"
        /\ ovStatus[d] = "PENDING"
        /\ inflight[d] # <<>>

\* C8: at most one control operation is outstanding on the handle, it is the
\* one the thread waits for, and processVigil runs only while none is
\* outstanding.
C8_OperationsNeverOverlap ==
    \A d \in Devices :
        /\ Len(inflight[d]) <= 1
        /\ inflight[d] # <<>>
              => /\ ovStatus[d] = "PENDING"
                 /\ inflight[d][1].code = "GET" => pc[d] = "poll_wait"
                 /\ inflight[d][1].code = "SET" => pc[d] = "submit_wait"
        /\ pc[d] \notin {"poll_wait", "submit_wait"} => inflight[d] = <<>>

\* processVigil is running for the second request of the device
C8_Witness ==
    \E d \in Devices :
        /\ pc[d] = "vigil"
        /\ nDecides[d] = 2
        /\ nSubmits[d] = 1
        /\ inflight[d] = <<>>

\* C9: #submits <= #processVigil calls <= #successful polls, each pair
\* differing by at most one and equal whenever a poll is issued or the loop
\* has ended; processVigil is called only right after a poll that succeeded,
\* a submit is issued only right after processVigil, and a poll never follows
\* a poll or a processVigil call directly.
C9_EachRequestHandledOnceInOrder ==
    /\ [](\A d \in Devices :
            /\ nSubmits[d] <= nDecides[d] /\ nDecides[d] <= nSubmits[d] + 1
            /\ nDecides[d] <= nRequests[d] /\ nRequests[d] <= nDecides[d] + 1
            /\ nRequests[d] <= nPolls[d]
            /\ pc[d] = "vigil" => nRequests[d] = nDecides[d] /\ nDecides[d] = nSubmits[d] + 1
            /\ pc[d] = "poll_wait" /\ ovStatus[d] # "SUCCESS"
                  => nRequests[d] = nDecides[d] /\ nDecides[d] = nSubmits[d]
            /\ pc[d] \notin {"vigil", "poll_wait"}
                  => nRequests[d] = nDecides[d] /\ nDecides[d] = nSubmits[d])
    /\ [][\A d \in Devices :
            /\ nDecides'[d] # nDecides[d]
                  => /\ nDecides'[d] = nDecides[d] + 1
                     /\ lastOp[d] = "poll" /\ ovStatus[d] = "SUCCESS"
                     /\ nRequests[d] = nDecides[d] + 1
            /\ nSubmits'[d] # nSubmits[d]
                  => /\ nSubmits'[d] = nSubmits[d] + 1
                     /\ lastOp[d] = "decide"
            /\ nPolls'[d] # nPolls[d]
                  => /\ nPolls'[d] = nPolls[d] + 1
                     /\ lastOp[d] \in {"none", "sleep", "submit"}
       ]_vars

\* Three requests were polled, decided and answered one after the other
C9_Witness ==
    \E d \in Devices :
        /\ pc[d] = "submit_wait"
        /\ nRequests[d] = 3
        /\ nDecides[d] = 3
        /\ nSubmits[d] = 3

\* C10: once the while loop was left, the instance performs no poll,
\* processVigil call, submit or sleep and never re-enters the loop, whatever
\* happens to the cancellation flag afterwards.
C10_TerminatedIsAbsorbing ==
    [][\A d \in Devices :
        pc[d] \in Exited
          => /\ pc'[d] \in Exited
             /\ NoOperation(d)
             /\ inflight'[d] = inflight[d]
             /\ exitReason'[d] = exitReason[d]
    ]_vars

\* The loop ended because the device was gone; the flag was set as well
C10_Witness ==
    \E d \in Devices :
        /\ pc[d] = "finished"
        /\ exitReason[d] = "poll_gone"
        /\ cancelled[d]

\* C11: a failed CreateFileA is classified NotFound for ERROR_FILE_NOT_FOUND,
\* AccessDenied for ERROR_ACCESS_DENIED and Unknown for anything else; the
\* open is attempted once, the failed instance holds no open handle, and no
\* operation is ever issued for it.
C11_OpenFailureClassifiedNotRetried ==
    \A d \in Devices :
        /\ nOpens[d] <= 1
        /\ thrown[d] # "none" <=> pc[d] = "ctor_failed"
        /\ pc[d] = "ctor_failed"
              => /\ lastError[d] # "OK"
                 /\ lastError[d] = "ERROR_FILE_NOT_FOUND" <=> thrown[d] = "NotFound"
                 /\ lastError[d] = "ERROR_ACCESS_DENIED" <=> thrown[d] = "AccessDenied"
                 /\ lastError[d] \notin {"ERROR_FILE_NOT_FOUND", "ERROR_ACCESS_DENIED"}
                       <=> thrown[d] = "Unknown"
                 /\ _deviceHandle[d] = "INVALID_HANDLE_VALUE"
                 /\ openHandles[d] = 0
                 /\ nPolls[d] = 0 /\ nDecides[d] = 0 /\ nSubmits[d] = 0
                 /\ inflight[d] = <<>>
                 /\ hEvent[d] = "none" /\ pHgGetMem[d] = "none"
        /\ pc[d] \notin {"unconstructed", "ctor_failed"} => lastError[d] = "OK"

\* The open was refused with ERROR_ACCESS_DENIED
C11_Witness ==
    \E d \in Devices :
        /\ pc[d] = "ctor_failed"
        /\ lastError[d] = "ERROR_ACCESS_DENIED"
        /\ thrown[d] = "AccessDenied"
        /\ nOpens[d] = 1

\* C12: an instance holds at most one open device handle; a handle that was
\* opened is open until the instance is destroyed and is closed exactly once
\* then; CloseHandle is never called for an instance whose open failed.
C12_HandleOpenedOnceClosedOnce ==
    \A d \in Devices :
        /\ openHandles[d] <= 1
        /\ nCloseHandle[d] <= 1
        /\ openHandles[d] + nCloseHandle[d] = (IF _deviceHandle[d] = "HANDLE" THEN 1 ELSE 0)
        /\ _deviceHandle[d] = "HANDLE" <=> (nOpens[d] = 1 /\ lastError[d] = "OK")
        /\ nCloseHandle[d] = 1 <=> pc[d] = "destroyed"
        /\ thrown[d] # "none" => nCloseHandle[d] = 0 /\ openHandles[d] = 0

\* An instance whose loop never ran was destroyed: its handle was closed
C12_Witness ==
    \E d \in Devices :
        /\ pc[d] = "destroyed"
        /\ exitReason[d] = "none"
        /\ _deviceHandle[d] = "HANDLE"
        /\ nCloseHandle[d] = 1
        /\ openHandles[d] = 0

\* Everything the model keeps about instance d
DevState(d) ==
    <<pc[d], cancelled[d], thrown[d], lastError[d], nOpens[d], _deviceHandle[d],
      _bufferSize[d], openHandles[d], hEvent[d], ovStatus[d], pHgGetMem[d], allocSize[d],
      pHgGet[d], hgSet[d], reqId[d], inflight[d], vigilOut[d], lastOp[d], nPolls[d],
      nRequests[d], nDecides[d], nSubmits[d], nSleeps[d], nErrorLog[d], nFree[d],
      nCloseEvent[d], nCloseHandle[d], exitReason[d]>>

\* C13: with two loops running concurrently, a step of one instance - a
\* terminal outcome and a cancellation included - changes nothing of the
\* other, and a loop ends only for a reason of its own: its own flag, or the
\* status its own poll or submit completed with.
C13_NoEffectAcrossDevices ==
    /\ [][\A d \in Devices : \A e \in Devices \ {d} :
            DevState(d)' # DevState(d) => DevState(e)' = DevState(e)
       ]_vars
    /\ [](\A d \in Devices :
            /\ exitReason[d] # "none" => pc[d] \in Exited
            /\ pc[d] \in {"cleanup", "finished"} => exitReason[d] # "none"
            /\ exitReason[d] = "cancelled" => cancelled[d]
            /\ exitReason[d] \in {"poll_gone", "submit_gone"}
                  => ovStatus[d] = "ERROR_DEV_NOT_EXIST"
            /\ exitReason[d] \in {"poll_fatal", "submit_fatal"} => Fatal(d))

\* One loop has ended on a fatal poll failure and another, not cancelled,
\* is asking processVigil about a request
C13_Witness ==
    \E d \in Devices : \E e \in Devices \ {d} :
        /\ pc[d] = "finished"
        /\ exitReason[d] = "poll_fatal"
        /\ pc[e] = "vigil"
        /\ ~cancelled[e]
        /\ exitReason[e] = "none"

\* C14: the request buffer is allocated with header size + configured
\* capacity and keeps that size while the loop runs; a poll is issued on a
\* buffer that holds nothing but the stamped Size and RequestId, so nothing
\* the driver wrote in an earlier cycle is there when the answer is decoded.
C14_BufferSizedAndZeroedPerCycle ==
    \A d \in Devices :
        /\ pc[d] \in InLoop \cup {"cleanup"}
              => /\ allocSize[d] = HeaderSize + _bufferSize[d]
                 /\ _bufferSize[d] \in Capacities
        /\ pc[d] = "poll_wait" /\ ovStatus[d] # "SUCCESS"
              => pHgGet[d] = [Size |-> allocSize[d], RequestId |-> reqId[d], ProcessId |-> 0]
        /\ pc[d] = "poll_wait" /\ ovStatus[d] = "SUCCESS"
              => /\ pHgGet[d].Size = allocSize[d]
                 /\ pHgGet[d].ProcessId \in Pids

\* The second poll is outstanding on a zeroed buffer; the first poll had
\* returned a request, whose process id the driver wrote into the buffer
C14_Witness ==
    \E d \in Devices :
        /\ pc[d] = "poll_wait"
        /\ ovStatus[d] = "PENDING"
        /\ nPolls[d] = 2
        /\ nRequests[d] = 1
        /\ pHgGet[d].ProcessId = 0

\* C15: hgSet is zero when a poll is issued, and a flag that processVigil
\* leaves unset is submitted as 0, whatever earlier cycles decided.
C15_UnsetFlagSubmittedAsZero ==
    \A d \in Devices :
        /\ pc[d] = "poll_wait" => hgSet[d] = ZeroSet
        /\ \A i \in Submits(d) :
              /\ vigilOut[d].IsAllowed = {} => inflight[d][i].IsAllowed = 0
              /\ vigilOut[d].IsSticky = {} => inflight[d][i].IsSticky = 0

\* The second submit is outstanding; processVigil stored neither flag for it
C15_Witness ==
    \E d \in Devices :
        /\ pc[d] = "submit_wait"
        /\ nSubmits[d] = 2
        /\ Submits(d) # {}
        /\ vigilOut[d] = [IsAllowed |-> {}, IsSticky |-> {}]
        /\ inflight[d][1].IsAllowed = 0
        /\ inflight[d][1].IsSticky = 0

\* The get-create-request operations that are outstanding on d
Polls(d) == {i \in 1..Len(inflight[d]) : inflight[d][i].code = "GET"}

\* C16: every poll hands the driver the size the buffer was allocated with,
\* as the Size field and as both buffer lengths, stamped anew after the
\* zeroing of each cycle.
C16_PollStatesAllocatedSize ==
    \A d \in Devices :
        /\ \A i \in Polls(d) :
              /\ inflight[d][i].Size = allocSize[d]
              /\ inflight[d][i].inLen = allocSize[d]
              /\ inflight[d][i].outLen = allocSize[d]
              /\ allocSize[d] = HeaderSize + _bufferSize[d]
        /\ pc[d] = "poll_wait" => pHgGet[d].Size = allocSize[d]

\* The second poll of an instance configured with capacity 2 is outstanding
C16_Witness ==
    \E d \in Devices :
        /\ nPolls[d] = 2
        /\ Polls(d) # {}
        /\ _bufferSize[d] = 2
        /\ inflight[d][1].Size = HeaderSize + 2

\* C17: a request a poll returned is passed to processVigil and its decision
\* is submitted even when the cancellation flag was set after the poll was
\* issued: from a successful poll the thread goes to processVigil and from
\* there to the submit, and the loop never ends with a polled request that
\* was not answered.
C17_CancelNotObservedInsideCycle ==
    /\ \A d \in Guarded :
          (cancelled[d] /\ pc[d] = "poll_wait" /\ ovStatus[d] = "SUCCESS")
             ~> (pc[d] = "submit_wait" /\ nSubmits[d] = nRequests[d])
    /\ [](\A d \in Devices : pc[d] \in Exited => nSubmits[d] = nRequests[d])
    /\ [][\A d \in Devices :
            /\ (pc[d] = "poll_wait" /\ ovStatus[d] = "SUCCESS" /\ pc'[d] # pc[d])
                  => pc'[d] = "vigil" /\ nDecides'[d] = nDecides[d] + 1
            /\ (pc[d] = "vigil" /\ pc'[d] # pc[d])
                  => pc'[d] = "submit_wait" /\ nSubmits'[d] = nSubmits[d] + 1
       ]_vars

\* The flag was set after the only poll was issued, and the answer to the
\* request that poll returned is outstanding
C17_Witness ==
    \E d \in Devices :
        /\ cancelled[d]
        /\ pc[d] = "submit_wait"
        /\ nPolls[d] = 1
        /\ nSubmits[d] = 1
        /\ Submits(d) # {}

\* C18: logger.error was called once if the loop has ended on a failure that
\* is neither "queue empty" nor "device gone", and not at all otherwise:
\* not while the loop runs, whatever the number of empty polls, and not when
\* it ended by cancellation or because the device was gone.
C18_ErrorLoggedIffFatal ==
    \A d \in Devices :
        /\ nErrorLog[d] = (IF pc[d] \in Exited /\ Fatal(d) THEN 1 ELSE 0)
        /\ exitReason[d] \in {"poll_fatal", "submit_fatal"} <=> nErrorLog[d] = 1
        /\ exitReason[d] \in {"cancelled", "poll_gone", "submit_gone"} => nErrorLog[d] = 0

\* After an empty poll, a submit failed fatally: one error entry
C18_Witness ==
    \E d \in Devices :
        /\ pc[d] = "finished"
        /\ exitReason[d] = "submit_fatal"
        /\ nSleeps[d] = 1
        /\ nErrorLog[d] = 1

\* C19: the loop sleeps only as the step that follows a poll answered "queue
\* empty"; a successful submit leads straight back to the cancellation check,
\* no sleep precedes the first poll, and an instance that ended on a terminal
\* outcome did so with that poll or submit as its last operation.
C19_SleepOnlyAfterEmptyPoll ==
    /\ [](\A d \in Devices :
            /\ pc[d] = "backoff" => lastOp[d] = "sleep" /\ ovStatus[d] = "ERROR_NO_MORE_ITEMS"
            /\ nSleeps[d] + nRequests[d] <= nPolls[d]
            /\ exitReason[d] \in {"poll_gone", "poll_fatal"} => lastOp[d] = "poll"
            /\ exitReason[d] \in {"submit_gone", "submit_fatal"} => lastOp[d] = "submit")
    /\ [][\A d \in Devices :
            /\ (nSleeps'[d] # nSleeps[d] \/ (pc'[d] = "backoff" /\ pc[d] # "backoff"))
                  => /\ pc[d] = "poll_wait"
                     /\ ovStatus[d] = "ERROR_NO_MORE_ITEMS"
                     /\ pc'[d] = "backoff"
                     /\ nSleeps'[d] = nSleeps[d] + 1
            /\ (pc[d] = "submit_wait" /\ ovStatus[d] = "SUCCESS" /\ pc'[d] # pc[d])
                  => pc'[d] = "loop" /\ nSleeps'[d] = nSleeps[d]
       ]_vars

\* The second poll was issued right after the first submit succeeded: no
\* sleep so far
C19_Witness ==
    \E d \in Devices :
        /\ pc[d] = "poll_wait"
        /\ lastOp[d] = "poll"
        /\ nPolls[d] = 2
        /\ nSubmits[d] = 1
        /\ nSleeps[d] = 0

====
